---- MODULE Spec2Model ----
(***************************************************************************)
(* The session transport of whisper2's Android client: WsClientImpl and    *)
(* WsReconnectPolicy, as generated by src/android/generate_all.py.         *)
(*                                                                         *)
(* Threads.  OkHttp delivers the WebSocketListener callbacks on its own    *)
(* threads; scope.launch runs on Dispatchers.Default (a thread pool); the  *)
(* caller's connect/disconnect/markAuthExpired run on the caller's thread. *)
(* Nothing in the two classes synchronises them.  A handler is one action; *)
(* a coroutine is one action per suspension point, and getDelayMs(), which *)
(* a launched coroutine runs on a pool thread, is split into its read of   *)
(* attemptCount and its write of the incremented value.  The heartbeat     *)
(* loop's first test of its while condition is taken with the onOpen that  *)
(* launched it and has just set CONNECTED.                                 *)
(*                                                                         *)
(* History.  lastOp and lastArg name the step taken last.  The other       *)
(* history variables are each kept by one observer; `observe`, fixed by a  *)
(* specification's initial condition, says which observer runs, and the    *)
(* history that is not observed stays as it was initially.                 *)
(*                                                                         *)
(* Transport.  A socket is connecting, open, or has been asked to close    *)
(* (close() before or after it opened).  onOpen is delivered once when the *)
(* upgrade succeeds, onFailure at most once to a live socket, and onClosed *)
(* only to a socket on which the client called close(): the listener does  *)
(* not override onClosing, so a close started by the peer is never         *)
(* completed from this side.                                               *)
(*                                                                         *)
(* Delays are kept in units of RECONNECT_BASE_DELAY_MS: the product        *)
(* 1000L * (1 shl 31) does not fit the checker's integers, and             *)
(* minOf(1000*m, 30000) = 1000 * minOf(m, 30) for every integer m.         *)
(*                                                                         *)
(* Other components.  SecureStorage with KeystoreManager and logout(), the *)
(* seal operations of CryptoService, CanonicalSigning, BIP39 and           *)
(* KeyDerivation follow the transport, each with a specification of its    *)
(* own in which the transport stays as constructed.  The hash, signature   *)
(* and key-derivation primitives are not computed: a result is named by    *)
(* the arguments it was computed from.                                     *)
(***************************************************************************)
EXTENDS Integers, FiniteSets, Sequences, TLC

\* ---------------------------------------------------------------- bounds
MaxSockets == 2
MaxTimers == 2
MaxHeartbeats == 2
\* attemptCount is read by a reconnect coroutine only while below MaxCount
MaxCount == 5
\* calls of getDelayMs() in PolicySpec
MaxCalls == 33
\* threads reading private keys at once
MaxReaders == 2
\* wrapper keys the Keystore generates in a run
MaxKeyGens == 3
\* keys, nonce values and plaintexts a caller may pass to a seal
MaxKeys == 2
MaxNonces == 3
MaxPlaintexts == 2
\* seal operations logged in a run
MaxSeals == 3
\* the length of a string field, the largest timestamp, the largest byte
MaxStringLen == 1
MaxTimestamp == 1
MaxByte == 1
\* the entropy bytes that vary, the largest first byte of the digest
MaxFreeBytes == 2
MaxHashByte == 1
\* the words of a phrase given to validateMnemonic
MaxWords == 25
\* a small offset of a timestamp, in ms
MaxOffset == 1
\* key pairs of the box
MaxKeyPairs == 2
\* bytes of a sealed message
MaxMessageLen == 2
\* bytes asked of the key derivation
MaxOkmLen == 66
\* inbound frames delivered
MaxFrames == 3

\* ------------------------------------------------------------- constants
RECONNECT_BASE_DELAY_MS == 1000
RECONNECT_MAX_DELAY_MS == 30000
RECONNECT_MAX_ATTEMPTS == 5

SocketIds == 1..MaxSockets
TimerIds == 1..MaxTimers
HeartbeatIds == 1..MaxHeartbeats

WsConnectionState ==
  {"DISCONNECTED", "CONNECTING", "CONNECTED", "RECONNECTING", "AUTH_EXPIRED"}

VARIABLES
  connState,          \* _connectionState.value
  webSocket,          \* WsClientImpl.webSocket: a socket id, 0 for null
  sock,               \* the transport's view of every socket created
  attemptCount,       \* WsReconnectPolicy.attemptCount
  isAuthExpired,      \* WsReconnectPolicy.isAuthExpired
  isNetworkAvailable, \* WsReconnectPolicy.isNetworkAvailable
  timer,              \* the coroutines launched by attemptReconnect
  hb,                 \* the coroutines launched by startHeartbeat
  \* history, read by the properties only
  lastOp,             \* the handler or coroutine step taken last
  lastArg,            \* the socket, timer or heartbeat it was taken for, or 0
  timerAtDisc,        \* timers pending at a disconnect(), no connect() by the caller since
  hbAtDisc,           \* heartbeat loops alive at a disconnect()
  authMarked,         \* markAuthExpired() has been called
  freshOpen,          \* no delay was issued since the last onOpen
  lastDelay,          \* the last value getDelayMs returned (base units)
  schedSinceOpen,     \* reconnects scheduled since the last onOpen (saturating)
  observe,            \* which history is kept: none, disc, auth, delay or sched
  \* SecureStorage, KeystoreManager and AuthService
  prefs,              \* the private-key entries of the preferences: for each
                      \* name 0 (absent) or the wrapper key its value is wrapped with
  ksAlias,            \* the Keystore entry KEYSTORE_ALIAS: 0 (absent) or a wrapper key
  ksGen,              \* the number of wrapper keys generated so far
  logoutPc,           \* where AuthService.logout() stands
  reader,             \* the threads reading a private-key property
  authState,          \* AuthService._authState.value
  wiped,              \* history: a logout() has returned, no key stored since
  \* CryptoService and NonceGenerator
  nonceGen,           \* the number of nonces generateNonce() has returned
  sealLog,            \* history: the seal operations performed
  \* WsClientImpl, inbound frames
  msgJob,             \* the coroutines launched by onMessage, in the order launched
  emitted,            \* the coroutines whose frame _messages has taken, in that order
  \* the pure functions (signing, BIP39, key derivation)
  arg,                \* the inputs of the function under study
  out                 \* what the function has returned for them

policyVars == <<attemptCount, isAuthExpired, isNetworkAvailable>>
clientVars == <<connState, webSocket, sock, timer, hb>>
histVars == <<timerAtDisc, hbAtDisc, authMarked, freshOpen, schedSinceOpen, observe>>
wsVars == <<connState, webSocket, sock, attemptCount, isAuthExpired,
            isNetworkAvailable, timer, hb, lastOp, lastArg, timerAtDisc, hbAtDisc,
            authMarked, freshOpen, lastDelay, schedSinceOpen, observe>>
storeVars == <<prefs, ksAlias, ksGen, logoutPc, reader, authState, wiped>>
\* The state of everything but the session transport.
cryptoVars == <<nonceGen, sealLog>>
pureVars == <<arg, out>>
msgVars == <<msgJob, emitted>>
restVars == <<storeVars, cryptoVars, pureVars, msgVars>>
vars == <<wsVars, restVars>>

Min(a, b) == IF a <= b THEN a ELSE b

Lowest(S) == CHOOSE x \in S : \A y \in S : x <= y

IdleTimer == [pc |-> "idle", rd |-> 0]

\* ---------------------------------------------------- WsReconnectPolicy

\* Kotlin's Int `1 shl n`: the shift distance is n's low five bits and the
\* result wraps to 32 bits, so 1 shl 31 is Int.MIN_VALUE and 1 shl 32 is 1.
Shl1(n) == IF n % 32 = 31 THEN (0 - 2^30) - 2^30 ELSE 2^(n % 32)

\* shouldRetry() without its test of the network flag.
shouldRetry_IgnoresNetwork ==
  IF isAuthExpired THEN FALSE
  ELSE attemptCount < RECONNECT_MAX_ATTEMPTS

shouldRetry ==
  IF isAuthExpired THEN FALSE
  ELSE IF ~isNetworkAvailable THEN FALSE
  ELSE attemptCount < RECONNECT_MAX_ATTEMPTS

\* getDelayMs on a counter value n, in units of RECONNECT_BASE_DELAY_MS.
getDelayMs(n) == Min(Shl1(n), RECONNECT_MAX_DELAY_MS \div RECONNECT_BASE_DELAY_MS)

\* reset(): the values of (attemptCount, isAuthExpired) it leaves.
reset == [attemptCount |-> 0, isAuthExpired |-> FALSE]

Init ==
  /\ connState = "DISCONNECTED"
  /\ webSocket = 0
  /\ sock = [s \in SocketIds |-> "none"]
  /\ attemptCount = 0
  /\ isAuthExpired = FALSE
  /\ isNetworkAvailable = TRUE
  /\ timer = [t \in TimerIds |-> IdleTimer]
  /\ hb = [h \in HeartbeatIds |-> "idle"]
  /\ lastOp = "init"
  /\ lastArg = 0
  /\ timerAtDisc = {}
  /\ hbAtDisc = {}
  /\ authMarked = FALSE
  /\ freshOpen = FALSE
  /\ lastDelay = 0
  /\ schedSinceOpen = 0

\* ------------------------------------------------------------- observers

\* Timers pending at a disconnect(), until the caller's next connect(); a
\* timer stays in the set for the step in which it fires.
ObsTimerAtDisc ==
  timerAtDisc' =
    IF lastOp' = "disconnect" THEN {t \in TimerIds : timer[t].pc # "idle"}
    ELSE IF lastOp' \in {"connect", "connectReturn"} THEN {}
    ELSE {t \in timerAtDisc : timer[t].pc # "idle"
                               /\ (timer'[t].pc # "idle" \/ lastArg' = t)}

\* Heartbeat loops alive at a disconnect(), until they end.
ObsHbAtDisc ==
  hbAtDisc' =
    IF lastOp' = "disconnect" THEN {h \in HeartbeatIds : hb[h] # "idle"}
    ELSE {h \in hbAtDisc : hb'[h] # "idle"}

ObsAuthMarked == authMarked' = (authMarked \/ lastOp' = "markAuthExpired")

ObsFreshOpen ==
  freshOpen' = IF lastOp' = "onOpen" THEN TRUE
               ELSE IF lastOp' = "getDelayMs" THEN FALSE
               ELSE freshOpen

ObsLastDelay ==
  lastDelay' = IF lastOp' = "getDelayMs" THEN getDelayMs(timer[lastArg'].rd)
               ELSE lastDelay

\* A reconnect is scheduled by the step that launches a timer.
Scheduled == \E t \in TimerIds : timer[t].pc = "idle" /\ timer'[t].pc = "launched"

ObsSched ==
  schedSinceOpen' =
    IF lastOp' \in {"onOpen", "setNetworkAvailable"} THEN 0
    ELSE IF Scheduled THEN Min(schedSinceOpen + 1, RECONNECT_MAX_ATTEMPTS + 1)
    ELSE schedSinceOpen

\* The history kept along a step; every action of the client ends with it.
Hist ==
  /\ observe' = observe
  /\ IF observe = "disc" THEN ObsTimerAtDisc /\ ObsHbAtDisc
     ELSE UNCHANGED <<timerAtDisc, hbAtDisc>>
  /\ IF observe = "auth" THEN ObsAuthMarked ELSE UNCHANGED authMarked
  /\ IF observe = "delay" THEN ObsFreshOpen /\ ObsLastDelay
     ELSE UNCHANGED <<freshOpen, lastDelay>>
  /\ IF observe = "sched" THEN ObsSched ELSE UNCHANGED schedSinceOpen
  /\ UNCHANGED restVars

\* ----------------------------------------------------------- WsClientImpl

FreeSockets == {s \in SocketIds : sock[s] = "none"}
FreeTimers == {t \in TimerIds : timer[t].pc = "idle"}
FreeHeartbeats == {h \in HeartbeatIds : hb[h] = "idle"}

Live(s) == sock[s] \in {"connecting", "open", "closingC", "closing"}

\* connect(): returns at once when CONNECTED; otherwise sets CONNECTING and
\* replaces webSocket by a new socket (the old one is neither closed nor
\* cancelled).  `did` and `skipped` name the step in lastOp.
connect(did, skipped) ==
  \/ /\ connState = "CONNECTED"
     /\ lastOp' = skipped
     /\ UNCHANGED <<connState, webSocket, sock>>
  \/ /\ connState # "CONNECTED"
     /\ FreeSockets # {}
     /\ connState' = "CONNECTING"
     /\ sock' = [sock EXCEPT ![Lowest(FreeSockets)] = "connecting"]
     /\ webSocket' = Lowest(FreeSockets)
     /\ lastOp' = did

\* startHeartbeat(): launches one more loop, which enters its delay; a
\* running loop is left running.
startHeartbeat ==
  /\ FreeHeartbeats # {}
  /\ hb' = [hb EXCEPT ![Lowest(FreeHeartbeats)] = "delaying"]

\* attemptReconnect(): consults the policy; the launched coroutine calls
\* getDelayMs() later, on its own thread.  `was` is the state onFailure set.
attemptReconnect(was) ==
  IF shouldRetry
  THEN /\ FreeTimers # {}
       /\ connState' = "RECONNECTING"
       /\ timer' = [timer EXCEPT ![Lowest(FreeTimers)] = [pc |-> "launched", rd |-> 0]]
  ELSE /\ connState' = was
       /\ UNCHANGED timer

\* The caller's connect().
CallerConnect ==
  /\ connect("connect", "connectReturn")
  /\ lastArg' = 0
  /\ UNCHANGED <<policyVars, timer, hb>>
  /\ Hist

\* disconnect(): close() on the current socket if there is one, webSocket =
\* null, state DISCONNECTED.  No coroutine is cancelled.
disconnectBody ==
  /\ sock' = IF webSocket # 0 /\ sock[webSocket] \in {"connecting", "open"}
             THEN [sock EXCEPT ![webSocket] =
                     IF sock[webSocket] = "connecting" THEN "closingC" ELSE "closing"]
             ELSE sock
  /\ webSocket' = 0
  /\ connState' = "DISCONNECTED"

\* The caller's disconnect().
disconnect ==
  /\ disconnectBody
  /\ lastOp' = "disconnect"
  /\ lastArg' = 0
  /\ UNCHANGED <<policyVars, timer, hb>>
  /\ Hist

\* markAuthExpired(): sets the policy's flag and the state, nothing else.
markAuthExpired ==
  /\ isAuthExpired' = TRUE
  /\ connState' = "AUTH_EXPIRED"
  /\ lastOp' = "markAuthExpired"
  /\ lastArg' = 0
  /\ UNCHANGED <<webSocket, sock, attemptCount, isNetworkAvailable, timer, hb>>
  /\ Hist

\* WebSocketListener.onOpen of socket s, whichever socket is current.
onOpen(s) ==
  /\ sock[s] \in {"connecting", "closingC"}
  /\ sock' = [sock EXCEPT ![s] = IF sock[s] = "connecting" THEN "open" ELSE "closing"]
  /\ connState' = "CONNECTED"
  /\ attemptCount' = reset.attemptCount
  /\ isAuthExpired' = reset.isAuthExpired
  /\ startHeartbeat
  /\ lastOp' = "onOpen"
  /\ lastArg' = s
  /\ UNCHANGED <<webSocket, isNetworkAvailable, timer>>
  /\ Hist

\* WebSocketListener.onFailure of socket s.
onFailure(s) ==
  /\ Live(s)
  /\ sock' = [sock EXCEPT ![s] = "none"]
  /\ attemptReconnect("DISCONNECTED")
  /\ lastOp' = "onFailure"
  /\ lastArg' = s
  /\ UNCHANGED <<webSocket, policyVars, hb>>
  /\ Hist

\* WebSocketListener.onClosed of socket s: the close handshake the client
\* started has completed.
onClosed(s) ==
  /\ sock[s] = "closing"
  /\ sock' = [sock EXCEPT ![s] = "none"]
  /\ connState' = "DISCONNECTED"
  /\ lastOp' = "onClosed"
  /\ lastArg' = s
  /\ UNCHANGED <<webSocket, policyVars, timer, hb>>
  /\ Hist

\* The reconnect coroutine, getDelayMs(): the reads of attemptCount.
TimerRead(t) ==
  /\ timer[t].pc = "launched"
  /\ attemptCount < MaxCount
  /\ timer' = [timer EXCEPT ![t] = [pc |-> "read", rd |-> attemptCount]]
  /\ lastOp' = "getDelayMsRead"
  /\ lastArg' = t
  /\ UNCHANGED <<connState, webSocket, sock, policyVars, hb>>
  /\ Hist

\* getDelayMs(): the write of attemptCount++ and the return; delay() begins.
TimerWrite(t) ==
  /\ timer[t].pc = "read"
  /\ attemptCount' = timer[t].rd + 1
  /\ timer' = [timer EXCEPT ![t] = [pc |-> "delaying", rd |-> 0]]
  /\ lastOp' = "getDelayMs"
  /\ lastArg' = t
  /\ UNCHANGED <<connState, webSocket, sock, isAuthExpired, isNetworkAvailable, hb>>
  /\ Hist

\* The delay has elapsed: the coroutine calls connect() and ends.
TimerFire(t) ==
  /\ timer[t].pc = "delaying"
  /\ connect("timerConnect", "timerConnectReturn")
  /\ timer' = [timer EXCEPT ![t] = IdleTimer]
  /\ lastArg' = t
  /\ UNCHANGED <<policyVars, hb>>
  /\ Hist

\* send(frame): webSocket?.send(json).  The frame goes out (or is queued
\* until the upgrade completes) unless webSocket is null or the socket has
\* failed, is closed or has been asked to close.
SendAccepted == webSocket # 0 /\ sock[webSocket] \in {"connecting", "open"}

\* The 30 s delay has elapsed: a PING is sent if the state is CONNECTED (to
\* whatever webSocket is then), and the while is evaluated again.
HbTick(h) ==
  /\ hb[h] = "delaying"
  /\ IF connState = "CONNECTED"
     THEN /\ lastOp' = IF SendAccepted THEN "hbPing" ELSE "hbPingDropped"
          /\ UNCHANGED hb
     ELSE /\ lastOp' = "hbEnd"
          /\ hb' = [hb EXCEPT ![h] = "idle"]
  /\ lastArg' = h
  /\ UNCHANGED <<connState, webSocket, sock, policyVars, timer>>
  /\ Hist

\* WsReconnectPolicy.setNetworkAvailable(available).
setNetworkAvailable(available) ==
  /\ isNetworkAvailable' = available
  /\ attemptCount' = IF available /\ ~isAuthExpired THEN 0 ELSE attemptCount
  /\ lastOp' = "setNetworkAvailable"
  /\ lastArg' = 0
  /\ UNCHANGED <<clientVars, isAuthExpired>>
  /\ Hist

Next ==
  \/ CallerConnect
  \/ disconnect
  \/ markAuthExpired
  \/ \E s \in SocketIds : onOpen(s)
  \/ \E s \in SocketIds : onFailure(s)
  \/ \E s \in SocketIds : onClosed(s)
  \/ \E t \in TimerIds : TimerRead(t)
  \/ \E t \in TimerIds : TimerWrite(t)
  \/ \E t \in TimerIds : TimerFire(t)
  \/ \E h \in HeartbeatIds : HbTick(h)

NextNet == Next \/ \E b \in BOOLEAN : setNetworkAvailable(b)

\* ------------------------------------------- WsClientImpl, inbound frames

\* The texts OkHttp delivers: one that parses to a WsFrame, one that does not.
Texts == {"frame", "malformed"}

\* No frame has been delivered.
MsgInit ==
  /\ msgJob = <<>>
  /\ emitted = <<>>

MsgFrame == UNCHANGED <<wsVars, storeVars, cryptoVars, pureVars>>

\* WebSocketListener.onMessage of socket s: launches a coroutine on the
\* application scope (Dispatchers.Default) and returns.
onMessage(s, text) ==
  /\ sock[s] = "open"
  /\ Len(msgJob) < MaxFrames
  /\ msgJob' = Append(msgJob, [pc |-> "launched", sock |-> s, text |-> text])
  /\ UNCHANGED emitted
  /\ MsgFrame

\* The coroutine of the k-th frame runs: gson.fromJson, then
\* _messages.emit(frame); a text that does not parse is logged and dropped.
MsgRun(k) ==
  /\ k <= Len(msgJob)
  /\ msgJob[k].pc = "launched"
  /\ msgJob' = [msgJob EXCEPT ![k].pc = "done"]
  /\ emitted' = IF msgJob[k].text = "frame" THEN Append(emitted, k) ELSE emitted
  /\ MsgFrame

\* A session that connects and receives.
MsgNext ==
  \/ CallerConnect
  \/ \E s \in SocketIds : onOpen(s)
  \/ \E s \in SocketIds, text \in Texts : onMessage(s, text)
  \/ \E k \in 1..MaxFrames : MsgRun(k)

\* ------------------------------- SecureStorage, KeystoreManager, logout

\* The preference names of the three wrapped private keys.
PrivateKeyNames == {"enc_priv", "sign_priv", "contacts_key"}

ReaderIds == 1..MaxReaders

IdleReader == [pc |-> "idle", blob |-> 0, key |-> 0, res |-> "none", post |-> FALSE]

\* A fresh install: no preferences, no Keystore entry, nobody logged in.
StoreInit ==
  /\ prefs = [n \in PrivateKeyNames |-> 0]
  /\ ksAlias = 0
  /\ ksGen = 0
  /\ logoutPc = "idle"
  /\ reader = [r \in ReaderIds |-> IdleReader]
  /\ authState = "Unauthenticated"
  /\ wiped = FALSE

\* UNCHANGED for a step of the storage that leaves the transport alone.
StoreFrame == UNCHANGED <<wsVars, cryptoVars, pureVars, msgVars>>

\* The setter of a private-key property with a non-null value: wrapKey()
\* takes the Keystore entry, generating it if absent, and the wrapped value
\* is put into the preferences.  Keys are stored by the account flows, which
\* do not run during a logout().
StoreKey(n) ==
  /\ logoutPc = "idle"
  /\ IF ksAlias # 0
     THEN /\ prefs' = [prefs EXCEPT ![n] = ksAlias]
          /\ UNCHANGED <<ksAlias, ksGen>>
     ELSE /\ ksGen < MaxKeyGens
          /\ ksGen' = ksGen + 1
          /\ ksAlias' = ksGen + 1
          /\ prefs' = [prefs EXCEPT ![n] = ksGen + 1]
  /\ wiped' = FALSE
  /\ UNCHANGED <<logoutPc, reader, authState>>
  /\ StoreFrame

\* logout(), clearAll(): prefs.edit().clear().apply() empties the
\* preferences in memory in one step.
LogoutClearPrefs ==
  /\ logoutPc = "idle"
  /\ prefs' = [n \in PrivateKeyNames |-> 0]
  /\ logoutPc' = "cleared"
  /\ UNCHANGED <<ksAlias, ksGen, reader, authState, wiped>>
  /\ StoreFrame

\* clearAll(), deleteKey(): keyStore.containsAlias(KEYSTORE_ALIAS).
LogoutContainsAlias ==
  /\ logoutPc = "cleared"
  /\ logoutPc' = IF ksAlias # 0 THEN "deleting" ELSE "deleted"
  /\ UNCHANGED <<prefs, ksAlias, ksGen, reader, authState, wiped>>
  /\ StoreFrame

\* deleteKey(): keyStore.deleteEntry(KEYSTORE_ALIAS).
LogoutDeleteEntry ==
  /\ logoutPc = "deleting"
  /\ ksAlias' = 0
  /\ logoutPc' = "deleted"
  /\ UNCHANGED <<prefs, ksGen, reader, authState, wiped>>
  /\ StoreFrame

\* logout() after clearAll(): wsClient.disconnect(), the state becomes
\* Unauthenticated, and logout() returns.
LogoutReturn ==
  /\ logoutPc = "deleted"
  /\ disconnectBody
  /\ authState' = "Unauthenticated"
  /\ logoutPc' = "idle"
  /\ wiped' = TRUE
  /\ UNCHANGED <<prefs, ksAlias, ksGen, reader>>
  /\ UNCHANGED <<policyVars, timer, hb, lastOp, lastArg, lastDelay, histVars>>
  /\ UNCHANGED <<cryptoVars, pureVars, msgVars>>

\* The getter of a private-key property, prefs.getString(name, null): null
\* makes the getter return null, otherwise the value goes to unwrapKey().
ReadPrefs(r, n) ==
  /\ reader[r].pc = "idle"
  /\ reader' = [reader EXCEPT ![r] =
       IF prefs[n] = 0
       THEN [pc |-> "done", blob |-> 0, key |-> 0, res |-> "none", post |-> wiped]
       ELSE [pc |-> "unwrap", blob |-> prefs[n], key |-> 0, res |-> "none", post |-> wiped]]
  /\ UNCHANGED <<prefs, ksAlias, ksGen, logoutPc, authState, wiped>>
  /\ StoreFrame

\* unwrapKey(), getOrCreateKey(): keyStore.containsAlias(KEYSTORE_ALIAS).
ReadContainsAlias(r) ==
  /\ reader[r].pc = "unwrap"
  /\ reader' = [reader EXCEPT ![r].pc = IF ksAlias # 0 THEN "getEntry" ELSE "generate"]
  /\ UNCHANGED <<prefs, ksAlias, ksGen, logoutPc, authState, wiped>>
  /\ StoreFrame

\* getOrCreateKey(): keyStore.getEntry(...) as KeyStore.SecretKeyEntry; the
\* cast of null throws when the entry has been deleted meanwhile.
ReadGetEntry(r) ==
  /\ reader[r].pc = "getEntry"
  /\ reader' = [reader EXCEPT ![r] =
       IF ksAlias = 0
       THEN [@ EXCEPT !.pc = "done", !.res = "throws"]
       ELSE [@ EXCEPT !.pc = "decrypt", !.key = ksAlias]]
  /\ UNCHANGED <<prefs, ksAlias, ksGen, logoutPc, authState, wiped>>
  /\ StoreFrame

\* getOrCreateKey(): no entry was found, keyGenerator.generateKey() puts a
\* new wrapper key under KEYSTORE_ALIAS and returns it.
ReadGenerateKey(r) ==
  /\ reader[r].pc = "generate"
  /\ ksGen < MaxKeyGens
  /\ ksGen' = ksGen + 1
  /\ ksAlias' = ksGen + 1
  /\ reader' = [reader EXCEPT ![r] = [@ EXCEPT !.pc = "decrypt", !.key = ksGen + 1]]
  /\ UNCHANGED <<prefs, logoutPc, authState, wiped>>
  /\ StoreFrame

\* unwrapKey(): AES-GCM cipher.doFinal returns the key when the wrapper key
\* is the one the value was wrapped with, and throws AEADBadTagException
\* under any other wrapper key.
ReadDecrypt(r) ==
  /\ reader[r].pc = "decrypt"
  /\ reader' = [reader EXCEPT ![r] =
       [@ EXCEPT !.pc = "done",
                 !.res = IF reader[r].key = reader[r].blob THEN "key" ELSE "throws"]]
  /\ UNCHANGED <<prefs, ksAlias, ksGen, logoutPc, authState, wiped>>
  /\ StoreFrame

\* The read is over; the thread may read again.
ReadReturn(r) ==
  /\ reader[r].pc = "done"
  /\ reader' = [reader EXCEPT ![r] = IdleReader]
  /\ UNCHANGED <<prefs, ksAlias, ksGen, logoutPc, authState, wiped>>
  /\ StoreFrame

StoreNext ==
  \/ \E n \in PrivateKeyNames : StoreKey(n)
  \/ LogoutClearPrefs
  \/ LogoutContainsAlias
  \/ LogoutDeleteEntry
  \/ LogoutReturn
  \/ \E r \in ReaderIds, n \in PrivateKeyNames : ReadPrefs(r, n)
  \/ \E r \in ReaderIds : ReadContainsAlias(r)
  \/ \E r \in ReaderIds : ReadGetEntry(r)
  \/ \E r \in ReaderIds : ReadGenerateKey(r)
  \/ \E r \in ReaderIds : ReadDecrypt(r)
  \/ \E r \in ReaderIds : ReadReturn(r)

\* ------------------------------------------ CryptoService: seal and nonces

KeyIds == 1..MaxKeys
NonceValues == 1..MaxNonces
Plaintexts == 1..MaxPlaintexts

CryptoInit ==
  /\ nonceGen = 0
  /\ sealLog = {}

CryptoFrame == UNCHANGED <<wsVars, storeVars, pureVars, msgVars>>

\* generateNonce(): 24 bytes from SecureRandom.  The n-th draw is the nonce
\* value n: two draws of 192 random bits are taken never to coincide.
generateNonce ==
  /\ nonceGen < MaxNonces
  /\ nonceGen' = nonceGen + 1
  /\ UNCHANGED sealLog
  /\ CryptoFrame

\* The seal of NaClBox / NaClSecretBox: the message is encrypted under the
\* nonce and the key the caller passes; nothing is drawn and nothing is
\* remembered.  (The log is history.)
seal(op, message, nonce, key) ==
  /\ Cardinality(sealLog) < MaxSeals
  /\ sealLog' = sealLog \cup {[op |-> op, key |-> key, nonce |-> nonce, msg |-> message]}
  /\ UNCHANGED nonceGen
  /\ CryptoFrame

\* boxSeal(message, nonce, recipientPubKey, senderPrivKey); a key id stands
\* for the pair of keys.
boxSeal == \E m \in Plaintexts, n \in NonceValues, k \in KeyIds : seal("box", m, n, k)

\* secretBoxSeal(message, nonce, key).
secretBoxSeal ==
  \E m \in Plaintexts, n \in NonceValues, k \in KeyIds : seal("secretbox", m, n, k)

CryptoNext ==
  \/ generateNonce
  \/ boxSeal
  \/ secretBoxSeal

\* ------------------------------------------------------- pure functions

\* No function is under study.
PureIdle ==
  /\ arg = <<>>
  /\ out = <<>>

PureFrame == UNCHANGED <<wsVars, storeVars, cryptoVars, msgVars>>

\* The transport, the storage and the crypto service as constructed.
OthersInit == Init /\ observe = "none" /\ StoreInit /\ CryptoInit /\ MsgInit

\* ------------------------------------------------------ CanonicalSigning

\* A string is a sequence of one-character strings.
NL == "\n"

\* The values of a String argument: every string of at most MaxStringLen
\* characters that are a letter or a newline.
Chars == {"a", NL}
Strings == UNION {[1..n -> Chars] : n \in 0..MaxStringLen}

Timestamps == 0..MaxTimestamp

\* The values of a ByteArray argument: one byte, 0..MaxByte.
ByteArrays == {<<b>> : b \in 0..MaxByte}

Digits == <<"0", "1", "2", "3", "4", "5", "6", "7", "8", "9">>

\* "$timestamp": Long.toString().
RECURSIVE LongToString(_)
LongToString(n) ==
  IF n < 0 THEN <<"-">> \o LongToString(0 - n)
  ELSE IF n < 10 THEN <<Digits[n + 1]>>
  ELSE LongToString(n \div 10) \o <<Digits[(n % 10) + 1]>>

Base64Alphabet == <<
  "A", "B", "C", "D", "E", "F", "G", "H", "I", "J", "K", "L", "M", "N", "O", "P",
  "Q", "R", "S", "T", "U", "V", "W", "X", "Y", "Z", "a", "b", "c", "d", "e", "f",
  "g", "h", "i", "j", "k", "l", "m", "n", "o", "p", "q", "r", "s", "t", "u", "v",
  "w", "x", "y", "z", "0", "1", "2", "3", "4", "5", "6", "7", "8", "9", "+", "/">>

\* ByteArray.encodeBase64(): Base64.encodeToString(this, Base64.NO_WRAP).
RECURSIVE encodeBase64(_)
encodeBase64(b) ==
  IF Len(b) = 0 THEN <<>>
  ELSE IF Len(b) = 1
    THEN <<Base64Alphabet[(b[1] \div 4) + 1], Base64Alphabet[((b[1] % 4) * 16) + 1],
           "=", "=">>
  ELSE IF Len(b) = 2
    THEN <<Base64Alphabet[(b[1] \div 4) + 1],
           Base64Alphabet[((b[1] % 4) * 16 + (b[2] \div 16)) + 1],
           Base64Alphabet[((b[2] % 16) * 4) + 1], "=">>
  ELSE <<Base64Alphabet[(b[1] \div 4) + 1],
         Base64Alphabet[((b[1] % 4) * 16 + (b[2] \div 16)) + 1],
         Base64Alphabet[((b[2] % 16) * 4 + (b[3] \div 64)) + 1],
         Base64Alphabet[(b[3] % 64) + 1]>> \o encodeBase64(SubSeq(b, 4, Len(b)))

\* The arguments of signMessage / verifyMessage that are signed.
FieldTuples ==
  [messageType : Strings, messageId : Strings, from : Strings, toOrGroupId : Strings,
   timestamp : Timestamps, nonce : ByteArrays, ciphertext : ByteArrays]

\* The buildString { ... } of signMessage and of verifyMessage.
canonical(f) ==
  <<"v", "1", NL>> \o f.messageType \o <<NL>> \o f.messageId \o <<NL>>
    \o f.from \o <<NL>> \o f.toOrGroupId \o <<NL>>
    \o LongToString(f.timestamp) \o <<NL>>
    \o encodeBase64(f.nonce) \o <<NL>> \o encodeBase64(f.ciphertext) \o <<NL>>

\* signMessage for one key pair.  SHA-256 is taken to be collision-free
\* and Ed25519 unforgeable: the signature stands for the bytes it signs.
signMessage(f) == canonical(f)

\* verifyMessage for the same key pair.
verifyMessage(f, signature) == signature = canonical(f)

SigningInit ==
  /\ OthersInit
  /\ arg \in FieldTuples
  /\ out = <<>>

\* The sender signs the fields drawn.
SignStep ==
  /\ Len(out) = 0
  /\ out' = <<signMessage(arg)>>
  /\ UNCHANGED arg
  /\ PureFrame

\* A receiver verifies the signature against fields of its choosing.
VerifyStep ==
  /\ Len(out) = 1
  /\ \E g \in FieldTuples : out' = <<out[1], g, verifyMessage(g, out[1])>>
  /\ UNCHANGED arg
  /\ PureFrame

SigningNext ==
  \/ SignStep
  \/ VerifyStep

\* ------------------------------------------------ BIP39WordList and BIP39

\* A word is named by its index in the canonical 2048-entry English list.
\* BIP39WordList.words as generated: the first ListedHead canonical words
\* ("abandon" .. "body"), then "zero", "zone", "zoo", the last three.
ListedHead == 200
CanonicalSize == 2048
words ==
  [i \in 1..(ListedHead + 3) |->
     IF i <= ListedHead THEN i - 1 ELSE (CanonicalSize - 3) + (i - ListedHead - 1)]

\* A string is kept as its runs: a whitespace character, or a maximal run
\* of other characters, which is a word of the canonical list written in
\* lower case (up = FALSE) or with capitals, or is no such word (w = -1).
Sp == [t |-> "sp", w |-> 0, up |-> FALSE]
Tab == [t |-> "tab", w |-> 0, up |-> FALSE]
Chunk(k, up) == [t |-> "run", w |-> k, up |-> up]
IsSpace(c) == c.t \in {"sp", "tab"}

\* String.trim().
RECURSIVE trimStart(_)
trimStart(s) ==
  IF Len(s) > 0 /\ IsSpace(s[1]) THEN trimStart(Tail(s)) ELSE s

RECURSIVE trimEnd(_)
trimEnd(s) ==
  IF Len(s) > 0 /\ IsSpace(s[Len(s)]) THEN trimEnd(SubSeq(s, 1, Len(s) - 1)) ELSE s

trim(s) == trimEnd(trimStart(s))

\* String.replace(Regex("\\s+"), " ").
RECURSIVE collapseSpaces(_)
collapseSpaces(s) ==
  IF Len(s) = 0 THEN <<>>
  ELSE IF IsSpace(s[1])
    THEN <<Sp>> \o collapseSpaces(trimStart(s))
    ELSE <<s[1]>> \o collapseSpaces(Tail(s))

\* String.lowercase().
lowercase(s) == [i \in 1..Len(s) |-> [s[i] EXCEPT !.up = FALSE]]

\* String.normalizeMnemonic(): NFKD, which leaves these characters alone,
\* then trim, the collapse of whitespace runs, and lowercase.
normalizeMnemonic(s) == lowercase(collapseSpaces(trim(s)))

\* String.split(" "): the pieces between single spaces, empty ones kept.
RECURSIVE split(_)
split(s) ==
  IF \A i \in 1..Len(s) : s[i] # Sp THEN <<s>>
  ELSE LET i == CHOOSE j \in 1..Len(s) : s[j] = Sp /\ \A k \in 1..(j - 1) : s[k] # Sp
       IN <<SubSeq(s, 1, i - 1)>> \o split(SubSeq(s, i + 1, Len(s)))

\* A membership test that accepts any run of characters.
isValidWord_AnyRun(word) ==
  /\ Len(word) = 1
  /\ word[1].t = "run"

\* BIP39WordList.isValidWord(word): words.contains(word.lowercase()).
isValidWord(word) ==
  /\ Len(word) = 1
  /\ word[1].t = "run"
  /\ \E i \in 1..Len(words) : words[i] = word[1].w

\* BIP39.validateMnemonic(mnemonic).
validateMnemonic(mnemonic) ==
  LET ws == split(normalizeMnemonic(mnemonic))
  IN IF Len(ws) # 12 /\ Len(ws) # 24 THEN FALSE
     ELSE \A i \in 1..Len(ws) : isValidWord(ws[i])

\* words.joinToString(" ") of a list of list words.
RECURSIVE joinToString(_)
joinToString(ws) ==
  IF Len(ws) = 0 THEN <<>>
  ELSE IF Len(ws) = 1 THEN <<Chunk(ws[1], FALSE)>>
  ELSE <<Chunk(ws[1], FALSE), Sp>> \o joinToString(Tail(ws))

\* The bit string of entropyToMnemonic: bit j (from 1) of the entropy bytes
\* followed by the leading entropy.size / 4 bits of hash[0].
bitAt(entropy, hash0, j) ==
  IF j <= 8 * Len(entropy)
  THEN (entropy[((j - 1) \div 8) + 1] \div 2^(7 - ((j - 1) % 8))) % 2
  ELSE (hash0 \div 2^(7 - (j - 8 * Len(entropy) - 1))) % 2

\* bits.substring(i * 11, (i + 1) * 11).toInt(2), the first k bits of it.
RECURSIVE groupPrefix(_, _, _, _)
groupPrefix(entropy, hash0, i, k) ==
  IF k = 0 THEN 0
  ELSE 2 * groupPrefix(entropy, hash0, i, k - 1) + bitAt(entropy, hash0, i * 11 + k)

wordIndex(entropy, hash0, i) == groupPrefix(entropy, hash0, i, 11)

\* entropyToMnemonic(entropy), hash0 being the first byte of the SHA-256 of
\* the entropy: BIP39WordList.getWord(index) is words[index], which throws
\* IndexOutOfBoundsException for an index the list does not reach.
entropyToMnemonic(entropy, hash0) ==
  LET n == (8 * Len(entropy) + Len(entropy) \div 4) \div 11
  IN IF \E i \in 0..(n - 1) : wordIndex(entropy, hash0, i) >= Len(words)
     THEN [throws |-> TRUE, words |-> <<>>, phrase |-> <<>>]
     ELSE LET ws == [i \in 1..n |-> words[wordIndex(entropy, hash0, i - 1) + 1]]
          IN [throws |-> FALSE, words |-> ws, phrase |-> joinToString(ws)]

\* The entropy SecureRandom may give generateMnemonic (16 bytes) and
\* generateMnemonic24 (32 bytes): the leading MaxFreeBytes bytes vary, the
\* others are zero.  SHA-256 is not computed: the first byte of the digest
\* is drawn with the entropy.
EntropyByteValues == {0, 1, 128, 255}
HashByteValues == 0..MaxHashByte
Entropies ==
  {[i \in 1..n |-> IF i <= MaxFreeBytes THEN p[i] ELSE 0] :
     n \in {16, 32}, p \in [1..MaxFreeBytes -> EntropyByteValues]}

GenerateInit ==
  /\ OthersInit
  /\ arg \in [entropy : Entropies, hash0 : HashByteValues]
  /\ out = <<>>

\* generateMnemonic / generateMnemonic24 on the entropy drawn.
GenerateStep ==
  /\ Len(out) = 0
  /\ out' = <<entropyToMnemonic(arg.entropy, arg.hash0)>>
  /\ UNCHANGED arg
  /\ PureFrame

\* The caller validates the phrase it was given.
ValidateGeneratedStep ==
  /\ Len(out) = 1
  /\ ~out[1].throws
  /\ out' = <<out[1], validateMnemonic(out[1].phrase)>>
  /\ UNCHANGED arg
  /\ PureFrame

GenerateNext ==
  \/ GenerateStep
  \/ ValidateGeneratedStep

\* The phrases given to validateMnemonic: n words, "abandon" but for one
\* (the first or the last) which may be capitalized, be another word of the
\* canonical list, listed or cut from the generated list, or be no
\* canonical word; whitespace before, between and after the words.
OddWords ==
  {Chunk(0, FALSE), Chunk(1, TRUE), Chunk(CanonicalSize - 1, FALSE),
   Chunk(ListedHead, FALSE), Chunk(0 - 1, FALSE)}
Separators == {<<Sp>>, <<Sp, Sp>>, <<Tab>>}
Margins == {<<>>, <<Sp>>, <<Tab, Sp>>}

PhraseShapes ==
  [n : 0..MaxWords, odd : OddWords, last : BOOLEAN, sep : Separators,
   lead : Margins, trail : Margins]

RECURSIVE joinWith(_, _)
joinWith(ws, sep) ==
  IF Len(ws) = 0 THEN <<>>
  ELSE IF Len(ws) = 1 THEN <<ws[1]>>
  ELSE <<ws[1]>> \o sep \o joinWith(Tail(ws), sep)

\* The string of a shape.
phraseOf(a) ==
  LET ws == [i \in 1..a.n |->
               IF i = (IF a.last THEN a.n ELSE 1) THEN a.odd ELSE Chunk(0, FALSE)]
  IN a.lead \o joinWith(ws, a.sep) \o a.trail

ValidateInit ==
  /\ OthersInit
  /\ arg \in PhraseShapes
  /\ out = <<>>

\* validateMnemonic on the phrase drawn.
ValidateStep ==
  /\ Len(out) = 0
  /\ out' = <<validateMnemonic(phraseOf(arg))>>
  /\ UNCHANGED arg
  /\ PureFrame

ValidateNext == ValidateStep

\* ---------------------------------------- seedFromMnemonic, KeyDerivation

\* The password handed to PBKDF2, were it the phrase as given.
pbkdf2Password_Raw(mnemonic) == mnemonic

\* seedFromMnemonic: val normalized = mnemonic.normalizeMnemonic();
\* val password = normalized.toCharArray().
pbkdf2Password(mnemonic) == normalizeMnemonic(mnemonic)

\* BIP39.seedFromMnemonic(mnemonic).  PBKDF2-HMAC-SHA512 is not computed:
\* the seed is named by the password, the salt and the iteration count.
seedFromMnemonic(mnemonic) ==
  IF ~validateMnemonic(mnemonic)
  THEN [throws |-> TRUE, seed |-> <<>>]
  ELSE [throws |-> FALSE,
        seed |-> [pbkdf2 |-> pbkdf2Password(mnemonic), salt |-> "mnemonic"]]

\* HKDF.deriveKey(ikm, salt, info, 32), named by its arguments.
deriveKey(ikm, salt, info) == [hkdf |-> ikm, salt |-> salt, info |-> info]

\* KeyDerivation.deriveAllKeys(mnemonic); the seed is returned with the
\* keys so that it can be compared.
deriveAllKeys(mnemonic) ==
  LET s == seedFromMnemonic(mnemonic)
      encSeed == deriveKey(s.seed, "whisper", "whisper/enc")
      signSeed == deriveKey(s.seed, "whisper", "whisper/sign")
      contactsKey == deriveKey(s.seed, "whisper", "whisper/contacts")
  IN IF s.throws THEN [throws |-> TRUE]
     ELSE [throws |-> FALSE,
           seed |-> s.seed,
           encPublicKey |-> [scalarmultBase |-> encSeed],
           encPrivateKey |-> encSeed,
           signPublicKey |-> [signSeedKeypairPublic |-> signSeed],
           signPrivateKey |-> [signSeedKeypairSecret |-> signSeed],
           contactsKey |-> contactsKey]

\* The phrases given to deriveAllKeys: 12 or 24 words, one of them odd.
DeriveOddWords == {Chunk(1, FALSE), Chunk(1, TRUE), Chunk(2, FALSE), Chunk(0 - 1, FALSE)}
DeriveTrails == {<<>>, <<Sp>>}
DeriveShapes ==
  [n : {12, 24}, odd : DeriveOddWords, last : BOOLEAN, sep : Separators,
   lead : Margins, trail : DeriveTrails]

DeriveInit ==
  /\ OthersInit
  /\ arg \in [a : DeriveShapes, b : DeriveShapes]
  /\ out = <<>>

\* A first invocation of deriveAllKeys.
DeriveFirstStep ==
  /\ Len(out) = 0
  /\ out' = <<deriveAllKeys(phraseOf(arg.a))>>
  /\ UNCHANGED arg
  /\ PureFrame

\* A later invocation, on the second phrase.
DeriveSecondStep ==
  /\ Len(out) = 1
  /\ out' = <<out[1], deriveAllKeys(phraseOf(arg.b))>>
  /\ UNCHANGED arg
  /\ PureFrame

DeriveNext ==
  \/ DeriveFirstStep
  \/ DeriveSecondStep

\* One word of a generated phrase replaced by another canonical word.
\* The word put in, and the first digest byte of the entropy the new phrase
\* embeds (should that entropy differ), are drawn with the entropy.
ReplacementWords == {0, 1, ListedHead - 1, CanonicalSize - 1}

ReplaceInit ==
  /\ OthersInit
  /\ arg \in [entropy : Entropies, hash0 : HashByteValues, last : BOOLEAN,
               newWord : ReplacementWords, hash1 : HashByteValues]
  /\ out = <<>>

\* The position replaced: the last word or the first.
replacedAt(ws) == IF arg.last THEN Len(ws) ELSE 1

ReplaceWordStep ==
  /\ Len(out) = 1
  /\ ~out[1].throws
  /\ out[1].words[replacedAt(out[1].words)] # arg.newWord
  /\ out' = <<out[1], [out[1].words EXCEPT ![replacedAt(out[1].words)] = arg.newWord]>>
  /\ UNCHANGED arg
  /\ PureFrame

\* validateMnemonic on the phrase with the word replaced.
ValidateReplacedStep ==
  /\ Len(out) = 2
  /\ out' = <<out[1], out[2], validateMnemonic(joinToString(out[2]))>>
  /\ UNCHANGED arg
  /\ PureFrame

ReplaceNext ==
  \/ GenerateStep
  \/ ReplaceWordStep
  \/ ValidateReplacedStep

\* ------------------------------------------------- Long.isValidTimestamp

\* A Long is kept as its 64 bits in two's complement: four limbs of 16
\* bits, the least significant first.
LimbBase == 65536

\* Long subtraction and addition, wrapping as the JVM's do.
SubL(a, b) ==
  LET d1 == a[1] - b[1]
      d2 == a[2] - b[2] - (IF d1 < 0 THEN 1 ELSE 0)
      d3 == a[3] - b[3] - (IF d2 < 0 THEN 1 ELSE 0)
      d4 == a[4] - b[4] - (IF d3 < 0 THEN 1 ELSE 0)
  IN <<(d1 + LimbBase) % LimbBase, (d2 + LimbBase) % LimbBase,
       (d3 + LimbBase) % LimbBase, (d4 + LimbBase) % LimbBase>>

AddL(a, b) ==
  LET s1 == a[1] + b[1]
      s2 == a[2] + b[2] + (s1 \div LimbBase)
      s3 == a[3] + b[3] + (s2 \div LimbBase)
      s4 == a[4] + b[4] + (s3 \div LimbBase)
  IN <<s1 % LimbBase, s2 % LimbBase, s3 % LimbBase, s4 % LimbBase>>

ZeroL == <<0, 0, 0, 0>>
MinL == <<0, 0, 0, LimbBase \div 2>>
MaxL == <<LimbBase - 1, LimbBase - 1, LimbBase - 1, (LimbBase \div 2) - 1>>

IsNegL(a) == a[4] >= LimbBase \div 2

\* The Long of an integer small enough to be written here.
LongOf(n) ==
  IF n >= 0 THEN <<n % LimbBase, n \div LimbBase, 0, 0>>
  ELSE SubL(ZeroL, <<(0 - n) % LimbBase, (0 - n) \div LimbBase, 0, 0>>)

\* kotlin.math.abs(Long): -n for a negative n, wrapping, so that
\* abs(Long.MIN_VALUE) is Long.MIN_VALUE.
absL(a) == IF IsNegL(a) THEN SubL(ZeroL, a) ELSE a

\* a <= b on Longs.
LeqL(a, b) ==
  IF IsNegL(a) # IsNegL(b) THEN IsNegL(a)
  ELSE \/ a[4] < b[4]
       \/ a[4] = b[4] /\ a[3] < b[3]
       \/ a[4] = b[4] /\ a[3] = b[3] /\ a[2] < b[2]
       \/ a[4] = b[4] /\ a[3] = b[3] /\ a[2] = b[2] /\ a[1] <= b[1]

TIMESTAMP_SKEW_MS == 10 * 60 * 1000

\* Long.isValidTimestamp() when currentTimeMillis() returns now.
isValidTimestamp(t, now) == LeqL(absL(SubL(now, t)), LongOf(TIMESTAMP_SKEW_MS))

\* The clock: an early time and one of late 2025.
NowValues == {LongOf(1000000), <<21504, 16226, 410, 0>>}

\* The timestamps: an offset from now, from now + Long.MIN_VALUE, from
\* Long.MIN_VALUE upwards or from Long.MAX_VALUE downwards.
Offsets ==
  {0 - (TIMESTAMP_SKEW_MS + 1000), 0 - (TIMESTAMP_SKEW_MS + 1), 0 - TIMESTAMP_SKEW_MS,
   0 - (TIMESTAMP_SKEW_MS - 1000), 0 - MaxOffset, 0, MaxOffset,
   TIMESTAMP_SKEW_MS - 1000, TIMESTAMP_SKEW_MS, TIMESTAMP_SKEW_MS + 1,
   TIMESTAMP_SKEW_MS + 1000}
Origins == {"now", "nowPlusMin", "min", "max"}

\* The timestamp of an origin and an offset.
timestampOf(a) ==
  IF a.origin = "now" THEN AddL(a.now, LongOf(a.off))
  ELSE IF a.origin = "nowPlusMin" THEN AddL(AddL(a.now, MinL), LongOf(a.off))
  ELSE IF a.origin = "min" THEN AddL(MinL, LongOf(IF a.off < 0 THEN 0 - a.off ELSE a.off))
  ELSE SubL(MaxL, LongOf(IF a.off < 0 THEN 0 - a.off ELSE a.off))

TimestampInit ==
  /\ OthersInit
  /\ arg \in [now : NowValues, origin : Origins, off : Offsets]
  /\ out = <<>>

TimestampStep ==
  /\ Len(out) = 0
  /\ out' = <<isValidTimestamp(timestampOf(arg), arg.now)>>
  /\ UNCHANGED arg
  /\ PureFrame

TimestampNext == TimestampStep

\* ------------------------------------------- NaClBox and NaClSecretBox

\* Box.MACBYTES and SecretBox.MACBYTES: the Poly1305 tag.
MACBYTES == 16

\* X25519 key pairs, nonces and messages.
KeyPairIds == 1..MaxKeyPairs
publicKey(id) == [pk |-> id]
privateKey(id) == [sk |-> id]
Messages == UNION {[1..l -> 0..MaxByte] : l \in 0..MaxMessageLen}
ByteBits == 0..7

\* a xor b on the lowest n bits.
RECURSIVE xorBits(_, _, _)
xorBits(a, b, n) ==
  IF n = 0 THEN 0
  ELSE ((a + b) % 2) + 2 * xorBits(a \div 2, b \div 2, n - 1)
xor(a, b) == xorBits(a, b, 8)

\* A key agreement that tells the two sides apart: no X25519.
beforenm_OneSided(pk, sk) == [shared |-> <<pk.pk, sk.sk>>]

\* crypto_box_beforenm: both sides of a pair of key pairs get one key.
beforenm(pk, sk) == [shared |-> {pk.pk, sk.sk}]

\* A tag check that accepts everything: no Poly1305.
onetimeauthVerify_Accepting(tag, k, nonce, body) == TRUE

\* The byte of a ciphertext is named by what it encrypts: the plain byte,
\* the XSalsa20 stream position that covers it and the bits flipped since
\* (x).  The byte of a tag is named by what it authenticates.
streamXor(m, nonce, k) ==
  [i \in 1..Len(m) |-> [plain |-> m[i], stream |-> <<k, nonce, i>>, x |-> 0]]
onetimeauth(body, nonce, k) ==
  [i \in 1..MACBYTES |-> [mac |-> <<k, nonce, body>>, at |-> i, x |-> 0]]
onetimeauthVerify(tag, k, nonce, body) == tag = onetimeauth(body, nonce, k)

\* The byte under the stream of another key, nonce or position is another byte.
streamByte(e, s) ==
  IF e.stream = s THEN xor(e.plain, e.x) ELSE 255 - xor(e.plain, e.x)

\* crypto_secretbox_easy: fills ciphertext with the tag and then the body.
cryptoSecretBoxEasy(size, message, nonce, k) ==
  LET body == streamXor(message, nonce, k)
      written == onetimeauth(body, nonce, k) \o body
  IN [success |-> Len(written) <= size, ciphertext |-> written]

\* crypto_secretbox_open_easy: fills message only when the tag verifies.
cryptoSecretBoxOpenEasy(ciphertext, nonce, k) ==
  LET tag == SubSeq(ciphertext, 1, MACBYTES)
      body == SubSeq(ciphertext, MACBYTES + 1, Len(ciphertext))
  IN IF onetimeauthVerify(tag, k, nonce, body)
     THEN [success |-> TRUE,
           message |-> [i \in 1..Len(body) |-> streamByte(body[i], <<k, nonce, i>>)]]
     ELSE [success |-> FALSE, message |-> <<>>]

cryptoBoxEasy(size, message, nonce, pk, sk) ==
  cryptoSecretBoxEasy(size, message, nonce, beforenm(pk, sk))
cryptoBoxOpenEasy(ciphertext, nonce, pk, sk) ==
  cryptoSecretBoxOpenEasy(ciphertext, nonce, beforenm(pk, sk))

Returned(bytes) == [throws |-> "none", returns |-> bytes]
Thrown(exception) == [throws |-> exception, returns |-> <<>>]

\* seal and open of either class, given the library's answer.
sealWith(easy) ==
  IF ~easy.success THEN Thrown("EncryptionException") ELSE Returned(easy.ciphertext)
openWith(ciphertext, openEasy) ==
  IF Len(ciphertext) - MACBYTES < 0 THEN Thrown("NegativeArraySizeException")
  ELSE IF ~openEasy.success THEN Thrown("DecryptionException")
  ELSE Returned(openEasy.message)

NaClBox_seal(message, nonce, recipientPublicKey, senderPrivateKey) ==
  sealWith(cryptoBoxEasy(Len(message) + MACBYTES, message, nonce,
                         recipientPublicKey, senderPrivateKey))
NaClBox_open(ciphertext, nonce, senderPublicKey, recipientPrivateKey) ==
  openWith(ciphertext,
           cryptoBoxOpenEasy(ciphertext, nonce, senderPublicKey, recipientPrivateKey))

NaClSecretBox_seal(message, nonce, k) ==
  sealWith(cryptoSecretBoxEasy(Len(message) + MACBYTES, message, nonce, k))
NaClSecretBox_open(ciphertext, nonce, k) ==
  openWith(ciphertext, cryptoSecretBoxOpenEasy(ciphertext, nonce, k))

Variants == {"box", "secretbox"}

\* A message sealed from sender to recipient (box) or under the sender's
\* symmetric key (secretbox), then presented to open intact, with one bit
\* flipped, or cut short.
NaClInit ==
  /\ OthersInit
  /\ arg \in [variant : Variants, sender : KeyPairIds, recipient : KeyPairIds,
              nonce : NonceValues, message : Messages]
  /\ out = <<>>

symmetricKey(id) == [secret |-> id]

NaClSealStep ==
  /\ Len(out) = 0
  /\ out' = <<IF arg.variant = "box"
              THEN NaClBox_seal(arg.message, arg.nonce,
                                publicKey(arg.recipient), privateKey(arg.sender))
              ELSE NaClSecretBox_seal(arg.message, arg.nonce, symmetricKey(arg.sender))>>
  /\ UNCHANGED arg
  /\ PureFrame

Sealed == Len(out) = 1 /\ out[1].throws = "none"

NaClPresentIntact ==
  /\ Sealed
  /\ out' = Append(out, [how |-> "intact", ciphertext |-> out[1].returns])
  /\ UNCHANGED arg
  /\ PureFrame

NaClFlipBit ==
  /\ Sealed
  /\ \E p \in 1..Len(out[1].returns), b \in ByteBits :
       out' = Append(out, [how |-> "flip",
                           ciphertext |-> [out[1].returns EXCEPT ![p].x = xor(@, 2^b)]])
  /\ UNCHANGED arg
  /\ PureFrame

NaClTruncate ==
  /\ Sealed
  /\ \E l \in 0..(Len(out[1].returns) - 1) :
       out' = Append(out, [how |-> "truncate",
                           ciphertext |-> SubSeq(out[1].returns, 1, l)])
  /\ UNCHANGED arg
  /\ PureFrame

NaClOpenStep ==
  /\ Len(out) = 2
  /\ out' = Append(out,
       IF arg.variant = "box"
       THEN NaClBox_open(out[2].ciphertext, arg.nonce,
                         publicKey(arg.sender), privateKey(arg.recipient))
       ELSE NaClSecretBox_open(out[2].ciphertext, arg.nonce, symmetricKey(arg.sender)))
  /\ UNCHANGED arg
  /\ PureFrame

NaClNext ==
  \/ NaClSealStep
  \/ NaClPresentIntact
  \/ NaClFlipBit
  \/ NaClTruncate
  \/ NaClOpenStep

\* ------------------------------------------------------------------ HKDF

HASH_LEN == 32

\* Byte arrays of the key derivation: every byte is a record, a given byte
\* [byte |-> v] or byte at of a named HMAC output.
byteOf(v) == [byte |-> v]
bytesOf(s) == [i \in 1..Len(s) |-> byteOf(s[i])]

\* The bytes 1..HASH_LEN of one HMAC output at the head of data, written
\* once as that output; any other data as it is.
IsDigest(s) ==
  /\ Len(s) >= HASH_LEN
  /\ \A j \in 1..HASH_LEN :
       /\ DOMAIN s[j] = {"hmac", "at"}
       /\ s[j].at = j
       /\ s[j].hmac = s[1].hmac
written(s) ==
  IF IsDigest(s) THEN <<[digest |-> s[1].hmac]>> \o SubSeq(s, HASH_LEN + 1, Len(s)) ELSE s

\* Mac "HmacSHA256": init(key), update(data)..., doFinal(), named by the
\* key and the concatenation of the data.
hmac(k, data) ==
  [j \in 1..HASH_LEN |-> [hmac |-> [key |-> written(k), data |-> written(data)], at |-> j]]

HKDF_extract(salt, ikm) == hmac(salt, ikm)

\* length / HASH_LEN rounded down.
blocks_Floor(length) == length \div HASH_LEN

\* ceil(length.toDouble() / HASH_LEN).toInt() for a length >= 0.
blocks(length) == (length + HASH_LEN - 1) \div HASH_LEN

\* System.arraycopy(src, 0, dst, pos, HASH_LEN)
arraycopy(src, dst, pos) ==
  [k \in 1..Len(dst) |-> IF pos < k /\ k <= pos + HASH_LEN THEN src[k - pos] ELSE dst[k]]

\* okm.copyOf(length): cut, or padded with zero bytes.
copyOf(okm, length) ==
  [k \in 1..length |-> IF k <= Len(okm) THEN okm[k] ELSE byteOf(0)]

\* i.toByte(), as the eight bits written.
toByte(i) == i % 256

\* The loop of expand from round i on.
RECURSIVE expandLoop(_, _, _, _, _, _)
expandLoop(prk, info, n, i, t, okm) ==
  IF i > n THEN okm
  ELSE LET t2 == hmac(prk, t \o info \o <<byteOf(toByte(i))>>)
       IN expandLoop(prk, info, n, i + 1, t2, arraycopy(t2, okm, (i - 1) * HASH_LEN))

HKDF_expand(prk, info, length) ==
  LET n == blocks(length)
      okm == [k \in 1..(n * HASH_LEN) |-> byteOf(0)]
  IN copyOf(expandLoop(prk, info, n, 1, <<>>, okm), length)

HKDF_deriveKey(ikm, salt, info, length) ==
  HKDF_expand(HKDF_extract(salt, ikm), info, length)

\* The inputs: keying material, salt and info of at most one byte, a
\* length and a longer one.
OkmLengths == 0..MaxOkmLen
MoreLengths == {0, 1, HASH_LEN}
InfoValues == {<<>>} \cup {bytesOf(b) : b \in ByteArrays}

HkdfInit ==
  /\ OthersInit
  /\ arg \in [ikm : {bytesOf(b) : b \in ByteArrays},
              salt : {bytesOf(b) : b \in ByteArrays},
              info : InfoValues, length : OkmLengths, more : MoreLengths]
  /\ out = <<>>

HkdfExpandStep ==
  /\ Len(out) = 0
  /\ out' = <<HKDF_expand(HKDF_extract(arg.salt, arg.ikm), arg.info, arg.length)>>
  /\ UNCHANGED arg
  /\ PureFrame

HkdfExpandLongerStep ==
  /\ Len(out) = 1
  /\ out' = Append(out, HKDF_expand(HKDF_extract(arg.salt, arg.ikm), arg.info,
                                    arg.length + arg.more))
  /\ UNCHANGED arg
  /\ PureFrame

HkdfDeriveKeyStep ==
  /\ Len(out) = 2
  /\ out' = Append(out, HKDF_deriveKey(arg.ikm, arg.salt, arg.info, arg.length))
  /\ UNCHANGED arg
  /\ PureFrame

HkdfNext ==
  \/ HkdfExpandStep
  \/ HkdfExpandLongerStep
  \/ HkdfDeriveKeyStep

\* The state of the other components when only the transport runs.
RestInit == StoreInit /\ CryptoInit /\ PureIdle /\ MsgInit

\* -------------------------------------------------------- specifications

\* The constructed client together with the history observer that is kept.
InitNone == Init /\ observe = "none" /\ RestInit
InitDisc == Init /\ observe = "disc" /\ RestInit
InitAuth == Init /\ observe = "auth" /\ RestInit
InitDelay == Init /\ observe = "delay" /\ RestInit
InitSched == Init /\ observe = "sched" /\ RestInit

\* WsClientImpl as the application wires it: nothing calls
\* setNetworkAvailable, the policy being private to the client.
Spec == InitNone /\ [][Next]_vars

\* ... observing what was pending at a disconnect().
SpecDisc == InitDisc /\ [][Next]_vars

\* ... observing that markAuthExpired() was called.
SpecAuth == InitAuth /\ [][Next]_vars

\* ... observing the delays issued.
SpecDelay == InitDelay /\ [][Next]_vars

\* ... observing the reconnects scheduled.
SpecSched == InitSched /\ [][Next]_vars

\* Key storage, readers of the private keys and logout(), the transport
\* staying as constructed.
StoreSpec == InitNone /\ [][StoreNext]_vars

\* signMessage on drawn fields, then verifyMessage on any fields.
SigningSpec == SigningInit /\ [][SigningNext]_vars

\* Mnemonic generation on drawn entropy.
GenerateSpec == GenerateInit /\ [][GenerateNext]_vars

\* A generated phrase, one word replaced, then validated.
ReplaceSpec == ReplaceInit /\ [][ReplaceNext]_vars

\* validateMnemonic on drawn phrases.
ValidateSpec == ValidateInit /\ [][ValidateNext]_vars

\* Two invocations of deriveAllKeys on drawn phrases.
DeriveSpec == DeriveInit /\ [][DeriveNext]_vars

\* isValidTimestamp on drawn clocks and timestamps.
TimestampSpec == TimestampInit /\ [][TimestampNext]_vars

\* Messages sealed, presented and opened.
NaClSpec == NaClInit /\ [][NaClNext]_vars

\* HKDF.expand at two lengths and HKDF.deriveKey on the same inputs.
HkdfSpec == HkdfInit /\ [][HkdfNext]_vars

\* Inbound frames of a session.
MsgSpec == InitNone /\ [][MsgNext]_vars

\* Callers of the crypto service sealing messages.
CryptoSpec == InitNone /\ [][CryptoNext]_vars

\* The client with a connectivity monitor driving setNetworkAvailable.
SpecNet == InitNone /\ [][NextNet]_vars

\* A launched reconnect coroutine is dispatched and its delay elapses:
\* each of its steps is taken if it stays possible.
TimerFairness ==
  \A t \in TimerIds :
    WF_vars(TimerRead(t)) /\ WF_vars(TimerWrite(t)) /\ WF_vars(TimerFire(t))

\* The client of Spec with reconnect coroutines that make progress.
SpecFair == InitNone /\ [][Next]_vars /\ TimerFairness

\* -------------------------------------- WsReconnectPolicy on its own

\* One thread calling getDelayMs(): read, increment and return in one step.
PolicyGetDelayMs ==
  /\ attemptCount < MaxCalls
  /\ lastDelay' = getDelayMs(attemptCount)
  /\ attemptCount' = attemptCount + 1
  /\ lastOp' = "getDelayMs"
  /\ UNCHANGED <<clientVars, isAuthExpired, isNetworkAvailable, lastArg, histVars>>
  /\ UNCHANGED restVars

PolicyReset ==
  /\ attemptCount' = reset.attemptCount
  /\ isAuthExpired' = reset.isAuthExpired
  /\ lastOp' = "reset"
  /\ UNCHANGED <<clientVars, isNetworkAvailable, lastArg, lastDelay, histVars>>
  /\ UNCHANGED restVars

PolicyMarkAuthExpired ==
  /\ isAuthExpired' = TRUE
  /\ lastOp' = "markAuthExpired"
  /\ UNCHANGED <<clientVars, attemptCount, isNetworkAvailable, lastArg, lastDelay,
                 histVars>>
  /\ UNCHANGED restVars

PolicySetNetworkAvailable == \E b \in BOOLEAN : setNetworkAvailable(b)

PolicyNext ==
  \/ PolicyGetDelayMs
  \/ PolicyReset
  \/ PolicyMarkAuthExpired
  \/ PolicySetNetworkAvailable

PolicySpec == InitNone /\ [][PolicyNext]_vars

\* ------------------------------------------------------------ properties

TypeOK ==
  /\ connState \in WsConnectionState
  /\ webSocket \in {0} \cup SocketIds
  /\ sock \in [SocketIds -> {"none", "connecting", "open", "closingC", "closing"}]
  /\ attemptCount \in 0..(MaxCount + MaxCalls)
  /\ isAuthExpired \in BOOLEAN
  /\ isNetworkAvailable \in BOOLEAN
  /\ \A t \in TimerIds : /\ timer[t].pc \in {"idle", "launched", "read", "delaying"}
                         /\ timer[t].rd \in 0..MaxCount
  /\ hb \in [HeartbeatIds -> {"idle", "delaying"}]

\* The steps taken by a transport callback, a timer or a heartbeat.
AutomaticOps ==
  {"onOpen", "onFailure", "onClosed", "getDelayMsRead", "getDelayMs",
   "timerConnect", "timerConnectReturn", "hbPing", "hbPingDropped", "hbEnd"}

\* min(base * 2^n, maxDelay) over the integers, in base units.
ClaimedDelay(n) ==
  Min(2^Min(n, 30), RECONNECT_MAX_DELAY_MS \div RECONNECT_BASE_DELAY_MS)

\* C1: when disconnect() returns the state is DISCONNECTED, and a reconnect
\* timer that was pending at that disconnect() does not start a connection
\* attempt before the caller's next connect().
C1_DisconnectCancelsTimer ==
  /\ lastOp = "disconnect" => connState = "DISCONNECTED"
  /\ ~(lastOp = "timerConnect" /\ lastArg \in timerAtDisc)

\* C2: once markAuthExpired() has been called, no timer starts a connection
\* attempt and no transport failure schedules one.
C2_NoAutomaticAttemptAfterAuthExpired ==
  authMarked =>
    /\ lastOp # "timerConnect"
    /\ ~(lastOp = "onFailure" /\ connState = "RECONNECTING")

\* C3: no transport callback, timer or heartbeat step takes the state away
\* from AUTH_EXPIRED.
C3_AuthExpiredTerminal ==
  [][(connState = "AUTH_EXPIRED" /\ lastOp' \in AutomaticOps)
       => connState' = "AUTH_EXPIRED"]_vars

\* C4: once markAuthExpired() has been called the policy's flag stays set
\* and shouldRetry() is false.
C4_AuthExpiredFlagStays ==
  authMarked => (isAuthExpired /\ ~shouldRetry)

\* C5: an onClosed that arrives in state CONNECTED while the policy permits
\* a retry moves the state to RECONNECTING and schedules a reconnect, as an
\* onFailure does.
C5_ClosedConsultsPolicy ==
  [][(lastOp' = "onClosed" /\ connState = "CONNECTED" /\ shouldRetry)
       => (connState' = "RECONNECTING" /\ Scheduled)]_vars

\* C6: a heartbeat loop that was alive at a disconnect() sends no PING
\* afterwards, also when the session is connected again.
C6_DisconnectCancelsHeartbeat ==
  ~(lastOp = "hbPing" /\ lastArg \in hbAtDisc)

\* C7: every onOpen sets CONNECTED, zeroes the attempt counter and starts a
\* heartbeat loop, and the first delay issued after an onOpen is the base
\* delay.
C7_OpenResetsBackoff ==
  [][/\ lastOp' = "onOpen" =>
          /\ connState' = "CONNECTED"
          /\ attemptCount' = 0
          /\ \E h \in HeartbeatIds : hb[h] = "idle" /\ hb'[h] = "delaying"
     /\ (freshOpen /\ lastOp' = "getDelayMs") =>
          lastDelay' * RECONNECT_BASE_DELAY_MS = RECONNECT_BASE_DELAY_MS]_vars

\* C8: the n-th consecutive getDelayMs() from counter 0 returns
\* min(base * 2^n, maxDelay), for every n.
C8_DelayFormula ==
  lastOp = "getDelayMs" => lastDelay = ClaimedDelay(attemptCount - 1)

\* C9: at most RECONNECT_MAX_ATTEMPTS reconnects are scheduled between two
\* onOpen, and a failure that finds the counter at RECONNECT_MAX_ATTEMPTS
\* leaves the state DISCONNECTED.
C9_AtMostMaxAttempts ==
  /\ schedSinceOpen <= RECONNECT_MAX_ATTEMPTS
  /\ (lastOp = "onFailure" /\ attemptCount >= RECONNECT_MAX_ATTEMPTS)
       => connState = "DISCONNECTED"

\* C10: while the network is marked unavailable shouldRetry() is false, and
\* a transport failure leaves the attempt counter and the timers as they
\* were and the state DISCONNECTED.
C10_NoRetryWhileOffline ==
  /\ [](~isNetworkAvailable => ~shouldRetry)
  /\ [][(~isNetworkAvailable /\ lastOp' = "onFailure")
          => /\ attemptCount' = attemptCount
             /\ timer' = timer
             /\ connState' = "DISCONNECTED"]_vars

\* A failure has been handled offline with attempts left and no auth expiry:
\* only the network flag stood between it and a retry.
C10_Witness ==
  /\ lastOp = "onFailure"
  /\ ~isNetworkAvailable
  /\ ~isAuthExpired
  /\ attemptCount > 0
  /\ attemptCount < RECONNECT_MAX_ATTEMPTS
  /\ connState = "DISCONNECTED"

\* C11: the attempt counter goes up by exactly one each time a delay is
\* issued, and setNetworkAvailable sets it to zero only when availability
\* goes from unavailable to available while not auth-expired; every other
\* setNetworkAvailable call leaves the counter as it was.
C11_CounterFrame ==
  [][/\ lastOp' = "getDelayMs" => attemptCount' = attemptCount + 1
     /\ lastOp' = "setNetworkAvailable" =>
          attemptCount' = IF ~isNetworkAvailable /\ isNetworkAvailable' /\ ~isAuthExpired
                          THEN 0 ELSE attemptCount]_vars

\* C12: counter updates are serialized: each getDelayMs() reads and
\* increments attemptCount atomically, so every issued delay raises the
\* counter by one over its value at that moment (no increment is lost), and
\* no two calls in progress hold the same attempt number.
C12_GetDelayAtomic ==
  [][/\ lastOp' = "getDelayMs" => attemptCount' = attemptCount + 1
     /\ \A t1, t2 \in TimerIds :
          (t1 # t2 /\ timer'[t1].pc = "read" /\ timer'[t2].pc = "read")
            => timer'[t1].rd # timer'[t2].rd]_vars

\* A step of the model that is held back by a bound and not by the code.
AtBound == FreeSockets = {} \/ attemptCount >= MaxCount

\* C13: Reconnecting is entered by a failure only when the policy permits
\* a retry, and after such a failure a new connection attempt is eventually
\* made (state Connecting) unless disconnect() or markAuthExpired()
\* intervenes, the timer being fair.
C13_ReconnectingLeadsToConnecting ==
  /\ [][(lastOp' = "onFailure" /\ ~shouldRetry) => connState' # "RECONNECTING"]_vars
  /\ (lastOp = "onFailure" /\ connState = "RECONNECTING")
       ~> \/ connState = "CONNECTING"
          \/ lastOp \in {"disconnect", "markAuthExpired"}
          \/ AtBound

\* C14: the wipe at logout is atomic for concurrent reads: a finished read
\* of encPrivateKey, signPrivateKey or contactsKey has yielded the complete
\* key or no key, and a read begun after logout() returned has yielded no key.
C14_WipeAtomicForReaders ==
  \A r \in ReaderIds :
    reader[r].pc = "done" =>
      /\ reader[r].res \in {"key", "none"}
      /\ reader[r].post => reader[r].res = "none"

\* C15: no (key, nonce) pair is used for two seal operations: the seal
\* calls made through the crypto service never encrypt two different
\* plaintexts under the same key and nonce.
C15_NoKeyNonceReuse ==
  \A a, b \in sealLog :
    (a.op = b.op /\ a.key = b.key /\ a.nonce = b.nonce) => a.msg = b.msg

\* C16: verifyMessage accepts a signature made by signMessage only when
\* every field given to it equals the field that was signed: different
\* field tuples never have the same canonical string.
C16_VerifyOnlySignedFields ==
  (Len(out) = 3 /\ out[3]) => out[2] = arg

\* C17: for every 16-byte (32-byte) entropy, generation completes and
\* gives 12 (24) words, the i-th being the canonical word whose index is
\* the i-th 11-bit group of entropy and checksum bits, and the phrase
\* passes validateMnemonic.
C17_GenerationTotalAndCanonical ==
  /\ Len(out) >= 1 =>
       /\ ~out[1].throws
       /\ Len(out[1].words) = (3 * Len(arg.entropy)) \div 4
       /\ \A i \in 1..Len(out[1].words) :
            out[1].words[i] = wordIndex(arg.entropy, arg.hash0, i - 1)
  /\ Len(out) = 2 => out[2]

\* Bit j (from 1) of the bit string a list of canonical words embeds.
phraseBit(ws, j) == (ws[((j - 1) \div 11) + 1] \div 2^(10 - ((j - 1) % 11))) % 2

\* The checksum bits the words embed are the leading bits of the digest of
\* the entropy they embed, that digest starting with hash0 when the entropy
\* is the generated one and with hash1 otherwise.
ChecksumMatches(ws) ==
  LET e == 8 * Len(arg.entropy)
      h == IF \A j \in 1..e : phraseBit(ws, j) = phraseBit(out[1].words, j)
           THEN arg.hash0 ELSE arg.hash1
  IN \A k \in 1..(Len(arg.entropy) \div 4) :
       phraseBit(ws, e + k) = (h \div 2^(8 - k)) % 2

\* C18: a valid generated mnemonic with one word replaced by a different
\* canonical word fails validateMnemonic, unless the checksum the new
\* phrase embeds still matches its entropy.
C18_ReplacedWordFailsValidation ==
  (Len(out) = 3 /\ out[3]) => ChecksumMatches(out[2])

\* C19: validateMnemonic returns a boolean for every phrase, and returns
\* false whenever the phrase does not have exactly 12 or 24 words or has a
\* word that is not in the canonical list.
C19_ValidateRejectsMalformed ==
  Len(out) = 1 =>
    /\ out[1] \in BOOLEAN
    /\ (arg.n \notin {12, 24} \/ (arg.n >= 1 /\ arg.odd.w = 0 - 1)) => out[1] = FALSE

C19_Witness ==
  /\ Len(out) = 1
  /\ arg.n = 12
  /\ arg.odd.w = 0 - 1
  /\ arg.sep = <<Sp, Sp>>
  /\ arg.lead = <<Tab, Sp>>
  /\ out[1] = FALSE

\* The two phrases have the same words, differing at most in letter case
\* and whitespace.
SameWords == arg.a.n = arg.b.n /\ arg.a.last = arg.b.last /\ arg.a.odd.w = arg.b.odd.w

C21_ValidExactlyWithinSkew ==
  Len(out) = 1 =>
    (out[1] <=> (arg.origin = "now" /\ arg.off <= TIMESTAMP_SKEW_MS
                                   /\ 0 - arg.off <= TIMESTAMP_SKEW_MS))

\* C22: for all sender and recipient key pairs, nonces and messages, the
\* empty message included, boxOpen(boxSeal(m, n, pkR, skS), n, pkS, skR)
\* returns exactly m.
C22_BoxRoundTrip ==
  (Len(out) = 3 /\ arg.variant = "box" /\ out[2].how = "intact")
    => out[3] = Returned(arg.message)

C22_Witness ==
  /\ Len(out) = 3 /\ arg.variant = "box" /\ out[2].how = "intact"
  /\ arg.sender # arg.recipient
  /\ arg.message = <<>>
  /\ out[3].throws = "none"

\* C23: one flipped bit of a sealed ciphertext or of its tag makes open
\* fail with a decryption failure, for box and secretbox, and open hands
\* no plaintext bytes to the caller.
C23_FlippedBitFailsToOpen ==
  (Len(out) = 3 /\ out[2].how = "flip") => out[3] = Thrown("DecryptionException")

C23_Witness ==
  /\ Len(out) = 3 /\ out[2].how = "flip"
  /\ arg.variant = "secretbox"
  /\ Len(arg.message) > 0
  /\ out[2].ciphertext[MACBYTES + 1].x # 0
  /\ out[3].throws = "DecryptionException"

\* C29: for every ciphertext length, those below the 16-byte tag and the
\* empty ciphertext included, opening what is not a valid sealed message
\* signals a decryption failure and nothing else.
C29_ShortCiphertextIsDecryptionFailure ==
  (Len(out) = 3 /\ out[2].how = "truncate") => out[3] = Thrown("DecryptionException")

\* The chain of RFC 5869: T(0) is empty, T(i) = HMAC(prk, T(i-1) || info || byte(i)).
RECURSIVE chainT(_, _, _)
chainT(prk, info, i) ==
  IF i = 0 THEN <<>>
  ELSE hmac(prk, chainT(prk, info, i - 1) \o info \o <<byteOf(i)>>)

\* T(1) || ... || T(n)
RECURSIVE chainOkm(_, _, _)
chainOkm(prk, info, n) ==
  IF n = 0 THEN <<>> ELSE chainOkm(prk, info, n - 1) \o chainT(prk, info, n)

\* the least n with n * 32 >= length
ceilBlocks(length) == CHOOSE n \in 0..length : n * 32 >= length /\ (n = 0 \/ (n - 1) * 32 < length)

\* C24: expand(prk, info, length) returns exactly length bytes, the first
\* length bytes of T(1) || ... || T(n) with n = ceil(length / 32); the
\* output for a length is a prefix of the output for a longer one; and
\* deriveKey(ikm, salt, info, length) = expand(extract(salt, ikm), info, length).
C24_ExpandIsTruncatedChain ==
  LET prk == HKDF_extract(arg.salt, arg.ikm) IN
  /\ Len(out) >= 1 =>
       /\ Len(out[1]) = arg.length
       /\ out[1] = SubSeq(chainOkm(prk, arg.info, ceilBlocks(arg.length)), 1, arg.length)
  /\ Len(out) >= 2 => out[1] = SubSeq(out[2], 1, arg.length)
  /\ Len(out) = 3 => out[3] = out[1]

C24_Witness ==
  /\ Len(out) = 3
  /\ arg.length = HASH_LEN + 1
  /\ arg.more = HASH_LEN
  /\ Len(out[2]) = 2 * HASH_LEN + 1
  /\ out[1][HASH_LEN + 1] # out[1][1]
  /\ out[3] = out[1]

\* C25: at most one transport connection is open or being opened at any
\* time; a connect() made while CONNECTING or RECONNECTING, or while a
\* reconnect timer is pending, creates no second socket.
C25_AtMostOneConnection ==
  Cardinality({s \in SocketIds : sock[s] \in {"connecting", "open"}}) <= 1

\* C26: a callback of a superseded socket changes no state: whenever the
\* state is CONNECTED the current socket (webSocket) is open.
C26_ConnectedMeansCurrentSocketOpen ==
  connState = "CONNECTED" => (webSocket # 0 /\ sock[webSocket] = "open")

\* C27: at most one heartbeat loop is active at any time, so at most one
\* PING is sent per heartbeat interval.
C27_AtMostOneHeartbeat ==
  Cardinality({h \in HeartbeatIds : hb[h] # "idle"}) <= 1

\* C28: inbound frames are published in the order the transport delivered
\* them: of two frames received on the same socket, the earlier one is
\* emitted before the later one.
C28_EmittedInDeliveryOrder ==
  \A i, j \in 1..Len(emitted) :
    (i < j /\ msgJob[emitted[i]].sock = msgJob[emitted[j]].sock)
      => emitted[i] < emitted[j]
====
